---------------------------- MODULE Spec2Model ----------------------------
(***************************************************************************)
(* KeyboardActor (examples/keyboard_input_example.py): an actor that       *)
(* stores the last EstimatedState of a configured target system and turns  *)
(* console lines into IMC commands.  The actor base class (DynamicActor:   *)
(* run, stop, send, resolve_node_id, the Subscribe dispatch and the        *)
(* RunOnce launcher) is modelled from the specification's sections 4 to 7. *)
(***************************************************************************)
EXTENDS Integers, Sequences, FiniteSets, TLC

VARIABLES
    lifecycle,   \* "Created" | "Running" | "Stopping" | "Stopped"
    estate,      \* self.estate: NoMsg (None) or the stored EstimatedState
    heartbeat,   \* self.heartbeat: the names to maintain communications with
    nodes,       \* node directory: the node ids resolve_node_id can resolve
    inbox,       \* inbound messages received and not yet dispatched
    arrived,     \* number of inbound messages that have arrived
    pc,          \* position of the aio_readline task
    pending,     \* lines of the current read that the for loop has yet to handle
    readBusy,    \* a sys.stdin.readline call is blocking in the executor
    reads,       \* number of reads that have returned
    isRunning,   \* the run-once guard of aio_readline
    instances,   \* number of active aio_readline instances
    connected,   \* number of 'Target connected' notices logged
    obs          \* what the last step did: log lines, send calls, handlers run

vars == <<lifecycle, estate, heartbeat, nodes, inbox, arrived, pc, pending,
          readBusy, reads, isRunning, instances, connected, obs>>

----------------------------------------------------------------------------
(* Bounds of the model *)

MaxMsgs == 3
MaxInbox == 2
MaxReads == 3

----------------------------------------------------------------------------
(* The configuration and the environment's vocabulary *)

\* actor = KeyboardActor('lauv-simulator-1')
target_name == "lauv-simulator-1"

\* Node ids that may announce themselves, and the name each announces.
Nodes == {1, 2}
NodeName(n) == IF n = 1 THEN target_name ELSE "other-system"

\* Origins an inbound message may carry: 3 is never in the node directory.
Sources == {1, 2, 3}
MsgTypes == {"EstimatedState", "Heartbeat"}

\* None
NoMsg == [abbrev |-> "None", src |-> 0, seq |-> 0]

\* An inbound message: its runtime type (abbrev), its origin and its payload
\* (seq stands for the position and attitude it carries).
InMsg(t, s, q) == [abbrev |-> t, src |-> s, seq |-> q]

\* What one sys.stdin.readline call may return, as a sequence of tokens: a
\* word token stands for a run of non-blank characters, " " for blanks,
\* "\n" for the newline that ends the read and "\f" for a form feed, which
\* readline passes through and splitlines takes as a line boundary; <<>> is
\* end of input.
Reads ==
    { <<"exit", "\n">>,
      <<" ", "exit", " ", "\n">>,
      <<"stop", "\n">>,
      <<"start", "\n">>,
      <<"\n">>,
      <<"start", " ", "now", "\n">>,
      <<"exit", "\f", "start", "\n">>,
      <<"start", "\f", "stop", "\n">>,
      <<>> }

----------------------------------------------------------------------------
(* Text: str.splitlines and str.strip *)

IsBreak(c) == c \in {"\r", "\n", "\f"}
IsBlank(c) == c \in {" ", "\r", "\n", "\f"}

RECURSIVE SplitFrom(_, _)
\* The lines of rd, cur being the line read so far; "\r\n" is one boundary
\* and a boundary at the end yields no empty last line.
SplitFrom(rd, cur) ==
    IF rd = <<>> THEN (IF cur = <<>> THEN <<>> ELSE <<cur>>)
    ELSE IF IsBreak(Head(rd))
         THEN LET rest == IF Head(rd) = "\r" /\ Len(rd) > 1 /\ rd[2] = "\n"
                          THEN Tail(Tail(rd)) ELSE Tail(rd)
              IN <<cur>> \o SplitFrom(rest, <<>>)
         ELSE SplitFrom(Tail(rd), Append(cur, Head(rd)))

SplitLines(rd) == SplitFrom(rd, <<>>)

RECURSIVE LStrip(_)
LStrip(s) == IF s # <<>> /\ IsBlank(Head(s)) THEN LStrip(Tail(s)) ELSE s

RECURSIVE RStrip(_)
RStrip(s) ==
    IF s # <<>> /\ IsBlank(s[Len(s)]) THEN RStrip(SubSeq(s, 1, Len(s) - 1)) ELSE s

Strip(s) == RStrip(LStrip(s))

----------------------------------------------------------------------------
(* The collaborators of the base class: node directory and send *)

\* A destination handed to send or resolve_node_id: a system name or a
\* message, whose origin is then looked up.
ByName(s) == [kind |-> "name", name |-> s, msg |-> NoMsg]
ByMsg(m) == [kind |-> "msg", name |-> "", msg |-> m]

Resolvable(dest) ==
    IF dest.kind = "msg" THEN dest.msg.src \in nodes
    ELSE \E n \in nodes : NodeName(n) = dest.name

\* resolve_node_id: the node, or KeyError when the directory does not hold it.
resolve_node_id(dest) ==
    IF ~Resolvable(dest) THEN [raised |-> "KeyError", node |-> 0]
    ELSE IF dest.kind = "msg" THEN [raised |-> "none", node |-> dest.msg.src]
    ELSE [raised |-> "none",
          node |-> CHOOSE n \in nodes : NodeName(n) = dest.name]

\* send(dest, msg): resolves the destination and hands msg to the transport;
\* a destination that cannot be resolved raises and nothing is handed over.
send(dest, msg) ==
    LET r == resolve_node_id(dest)
    IN IF r.raised # "none" THEN [raised |-> r.raised, sent |-> <<>>]
       ELSE [raised |-> "none", sent |-> <<[node |-> r.node, msg |-> msg]>>]

\* stop(): Running -> Stopping; a repeated call changes nothing.
stop(lc) == IF lc = "Running" THEN "Stopping" ELSE lc

\* Mutant: a task's failure takes the actor down.
TaskBoundary_crash(lc, exc) == "Stopped"

\* The multiplexer boundary: the lifecycle after a task ended by raising exc.
TaskBoundary(lc, exc) == lc

----------------------------------------------------------------------------
(* KeyboardActor *)

\* Mutant: the target is not appended to the heartbeat list.
InitHeartbeat_missing == <<>>

\* __init__: estate is None and the target is appended to the heartbeat list
\* (empty in the base class).
InitHeartbeat == Append(<<>>, target_name)

\* Mutant: the KeyError of resolve_node_id is not caught.
from_target_notry(msg) ==
    LET r == resolve_node_id(ByMsg(msg))
    IN IF r.raised # "none" THEN [raised |-> r.raised, value |-> FALSE]
       ELSE [raised |-> "none", value |-> NodeName(r.node) = target_name]

from_target(msg) ==
    LET r == resolve_node_id(ByMsg(msg))
    IN IF r.raised = "KeyError" THEN [raised |-> "none", value |-> FALSE]
       ELSE IF r.raised # "none" THEN [raised |-> r.raised, value |-> FALSE]
       ELSE [raised |-> "none", value |-> NodeName(r.node) = target_name]

\* Mutant: estate is assigned inside the check for None.
recv_estate_firstonly(est, msg) ==
    LET f == from_target(msg)
    IN IF f.raised # "none" THEN [estate |-> est, log |-> <<>>, raised |-> f.raised]
       ELSE IF f.value /\ est = NoMsg
            THEN [estate |-> msg, log |-> <<"Target connected">>, raised |-> "none"]
            ELSE [estate |-> est, log |-> <<>>, raised |-> "none"]

\* Mutant: 'Target connected' is logged without the check for None.
recv_estate_alwayslog(est, msg) ==
    LET f == from_target(msg)
    IN IF f.raised # "none" THEN [estate |-> est, log |-> <<>>, raised |-> f.raised]
       ELSE IF f.value
            THEN [estate |-> msg, log |-> <<"Target connected">>, raised |-> "none"]
            ELSE [estate |-> est, log |-> <<>>, raised |-> "none"]

\* recv_estate on an actor whose estate is est: the new estate and the log.
recv_estate(est, msg) ==
    LET f == from_target(msg)
    IN IF f.raised # "none" THEN [estate |-> est, log |-> <<>>, raised |-> f.raised]
       ELSE IF f.value
            THEN [estate |-> msg,
                  log |-> IF est = NoMsg THEN <<"Target connected">> ELSE <<>>,
                  raised |-> "none"]
            ELSE [estate |-> est, log |-> <<>>, raised |-> "none"]

\* Mutant: recv_estate is subscribed to Heartbeat.
Subscriptions_heartbeat == << [abbrev |-> "Heartbeat", fn |-> "recv_estate"] >>

\* @Subscribe(imcpy.EstimatedState) on recv_estate
Subscriptions == << [abbrev |-> "EstimatedState", fn |-> "recv_estate"] >>

\* imcpy.coordinates.toWGS84 and WGS84.displace, uninterpreted.
toWGS84(est) == [fix |-> est.seq]
displace(p, n, e) == [from |-> p.fix, n |-> n, e |-> e]

Abort == [abbrev |-> "Abort"]

Goto(est) ==
    [abbrev |-> "Goto", z |-> "0.0", z_units |-> "DEPTH",
     latlon |-> displace(toWGS84(est), "100.0", "0.0"),
     speed |-> "1.2", speed_units |-> "METERS_PS"]

PlanManeuver(est) ==
    [abbrev |-> "PlanManeuver", data |-> Goto(est), maneuver_id |-> "TestManeuver"]

\* Mutant: start_man_id is given the plan's id.
PlanSpecification_badstart(est) ==
    [abbrev |-> "PlanSpecification", plan_id |-> "TestPlan",
     maneuvers |-> Append(<<>>, PlanManeuver(est)),
     start_man_id |-> "TestPlan",
     description |-> "A test plan sent from imcpy"]

PlanSpecification(est) ==
    [abbrev |-> "PlanSpecification", plan_id |-> "TestPlan",
     maneuvers |-> Append(<<>>, PlanManeuver(est)),
     start_man_id |-> "TestManeuver",
     description |-> "A test plan sent from imcpy"]

PlanControl(est) ==
    [abbrev |-> "PlanControl", type |-> "REQUEST", op |-> "START",
     plan_id |-> "TestManeuver", arg |-> PlanSpecification(est)]

\* What on_console does with one (stripped) line: the notices it logs, its
\* calls of send, what the transport was handed, whether it called stop and
\* the exception that left it.
Effect(log, calls, sent, stopped, raised) ==
    [log |-> log, calls |-> calls, sent |-> sent, stop |-> stopped, raised |-> raised]

\* line == 'exit'
on_console_exit == Effect(<<"Stopping...">>, <<>>, <<>>, TRUE, "none")

\* Mutant: a failed abort stops the actor.
on_console_stop_stops ==
    LET r == send(ByName(target_name), Abort)
        call == [dest |-> ByName(target_name), msg |-> Abort]
    IN IF r.raised = "KeyError"
       THEN Effect(<<"Aborting...", "Failed to send abort">>, <<call>>, r.sent,
                   TRUE, "none")
       ELSE Effect(<<"Aborting...">>, <<call>>, r.sent, FALSE, r.raised)

\* Mutant: the send of the abort is not guarded by try/except KeyError.
on_console_stop_notry ==
    LET r == send(ByName(target_name), Abort)
        call == [dest |-> ByName(target_name), msg |-> Abort]
    IN Effect(<<"Aborting...">>, <<call>>, r.sent, FALSE, r.raised)

\* line == 'stop'
on_console_stop ==
    LET r == send(ByName(target_name), Abort)
        call == [dest |-> ByName(target_name), msg |-> Abort]
    IN IF r.raised = "KeyError"
       THEN Effect(<<"Aborting...", "Failed to send abort">>, <<call>>, r.sent,
                   FALSE, "none")
       ELSE Effect(<<"Aborting...">>, <<call>>, r.sent, FALSE, r.raised)

\* Mutant: the start request is sent without the check of estate.
on_console_start_nocheck ==
    LET r == send(ByMsg(estate), PlanControl(estate))
        call == [dest |-> ByMsg(estate), msg |-> PlanControl(estate)]
    IN Effect(<<"Starting...">>, <<call>>, r.sent, FALSE, r.raised)

\* Mutant: the start request is sent to the configured target name.
on_console_start_byname ==
    IF estate = NoMsg
    THEN Effect(<<"Vehicle not connected">>, <<>>, <<>>, FALSE, "none")
    ELSE LET r == send(ByName(target_name), PlanControl(estate))
             call == [dest |-> ByName(target_name), msg |-> PlanControl(estate)]
         IN Effect(<<"Starting...">>, <<call>>, r.sent, FALSE, r.raised)

\* line == 'start'
on_console_start ==
    IF estate = NoMsg
    THEN Effect(<<"Vehicle not connected">>, <<>>, <<>>, FALSE, "none")
    ELSE LET r == send(ByMsg(estate), PlanControl(estate))
             call == [dest |-> ByMsg(estate), msg |-> PlanControl(estate)]
         IN Effect(<<"Starting...">>, <<call>>, r.sent, FALSE, r.raised)

\* else
on_console_other == Effect(<<"Unknown command">>, <<>>, <<>>, FALSE, "none")

\* Mutant: a command is recognised by its first word.
on_console_firstword(line) ==
    IF line # <<>> /\ Head(line) = "exit" THEN on_console_exit
    ELSE IF line # <<>> /\ Head(line) = "stop" THEN on_console_stop
    ELSE IF line # <<>> /\ Head(line) = "start" THEN on_console_start
    ELSE on_console_other

on_console(line) ==
    IF line = <<"exit">> THEN on_console_exit
    ELSE IF line = <<"stop">> THEN on_console_stop
    ELSE IF line = <<"start">> THEN on_console_start
    ELSE on_console_other

\* aio_readline: except RuntimeError: pass
AioReadlineCatches(exc) == exc = "RuntimeError"

\* Mutant: aio_readline is launched as an ordinary task.
TaskDecorator_none == "none"

\* @RunOnce() on aio_readline
TaskDecorator == "RunOnce"

----------------------------------------------------------------------------
(* Subscription dispatch *)

\* The body of the handler named fn.
CallHandler(fn, est, msg) ==
    IF fn = "recv_estate" THEN recv_estate(est, msg)
    ELSE [estate |-> est, log |-> <<>>, raised |-> "none"]

\* The registrations whose type is the runtime type of msg, in registration
\* order.
Matching(msg) == SelectSeq(Subscriptions, LAMBDA h : h.abbrev = msg.abbrev)

RECURSIVE RunHandlers(_, _, _)
\* Invokes the handlers hs in order on msg; a handler that raises is logged
\* and the next one still runs.
RunHandlers(hs, est, msg) ==
    IF hs = <<>> THEN [estate |-> est, log |-> <<>>, invoked |-> <<>>]
    ELSE LET r == CallHandler(Head(hs).fn, est, msg)
             rest == RunHandlers(Tail(hs), r.estate, msg)
         IN [estate |-> rest.estate,
             log |-> r.log
                     \o (IF r.raised # "none" THEN <<"Handler failed">> ELSE <<>>)
                     \o rest.log,
             invoked |-> <<Head(hs).fn>> \o rest.invoked]

dispatch(msg) == RunHandlers(Matching(msg), estate, msg)

Count(seq, x) == Cardinality({i \in 1..Len(seq) : seq[i] = x})

----------------------------------------------------------------------------
(* State machine *)

\* What a step that runs no handler leaves in obs.
Quiet(op) ==
    [op |-> op, line |-> <<>>, msg |-> NoMsg, log |-> <<>>, calls |-> <<>>,
     sent |-> <<>>, raised |-> "none", invoked |-> <<>>]

Init ==
    /\ lifecycle = "Created"
    /\ estate = NoMsg
    /\ heartbeat = InitHeartbeat
    /\ nodes = {}
    /\ inbox = <<>>
    /\ arrived = 0
    /\ pc = "idle"
    /\ pending = <<>>
    /\ readBusy = FALSE
    /\ reads = 0
    /\ isRunning = FALSE
    /\ instances = 0
    /\ connected = 0
    /\ obs = Quiet("init")

\* A request to launch aio_readline: skipped when the task is run-once and an
\* instance is active; otherwise an instance starts and runs to its first
\* await, the bridged sys.stdin.readline.
LaunchSkipped == TaskDecorator = "RunOnce" /\ isRunning

Launch(op) ==
    IF LaunchSkipped
    THEN /\ obs' = [Quiet(op) EXCEPT !.log = <<"debug: already running">>]
         /\ UNCHANGED <<pc, pending, readBusy, isRunning, instances>>
    ELSE /\ obs' = Quiet(op)
         /\ instances' = instances + 1
         /\ isRunning' = TRUE
         /\ pc' = "reading"
         /\ pending' = <<>>
         /\ readBusy' = TRUE

\* run(): Created -> Running; the run-once tasks are launched.
Run ==
    /\ lifecycle = "Created"
    /\ lifecycle' = "Running"
    /\ Launch("run")
    /\ UNCHANGED <<estate, heartbeat, nodes, inbox, arrived, reads, connected>>

\* A further launch request while the loop runs.
Relaunch ==
    /\ lifecycle = "Running"
    /\ pc # "loop"
    /\ Launch("relaunch")
    /\ UNCHANGED <<lifecycle, estate, heartbeat, nodes, inbox, arrived, reads,
                   connected>>

\* The node directory learns of node n (it announced itself).
NodeAnnounce(n) ==
    /\ lifecycle = "Running"
    /\ pc # "loop"
    /\ n \notin nodes
    /\ nodes' = nodes \cup {n}
    /\ obs' = Quiet("announce")
    /\ UNCHANGED <<lifecycle, estate, heartbeat, inbox, arrived, pc, pending,
                   readBusy, reads, isRunning, instances, connected>>

\* The node directory drops node n (it was not heard from in time).
NodePrune(n) ==
    /\ lifecycle = "Running"
    /\ pc # "loop"
    /\ n \in nodes
    /\ nodes' = nodes \ {n}
    /\ obs' = Quiet("prune")
    /\ UNCHANGED <<lifecycle, estate, heartbeat, inbox, arrived, pc, pending,
                   readBusy, reads, isRunning, instances, connected>>

\* An inbound message arrives while the listener is open: it is queued.
Arrive(t, s) ==
    /\ lifecycle = "Running"
    /\ arrived < MaxMsgs
    /\ Len(inbox) < MaxInbox
    /\ arrived' = arrived + 1
    /\ inbox' = Append(inbox, InMsg(t, s, arrived + 1))
    /\ obs' = Quiet("arrive")
    /\ UNCHANGED <<lifecycle, estate, heartbeat, nodes, pc, pending, readBusy,
                   reads, isRunning, instances, connected>>

\* An inbound message arrives after stop(): it is dropped.
DropArrival(t, s) ==
    /\ lifecycle \in {"Stopping", "Stopped"}
    /\ arrived < MaxMsgs
    /\ arrived' = arrived + 1
    /\ obs' = [Quiet("drop") EXCEPT !.msg = InMsg(t, s, arrived + 1)]
    /\ UNCHANGED <<lifecycle, estate, heartbeat, nodes, inbox, pc, pending,
                   readBusy, reads, isRunning, instances, connected>>

\* Mutant: a message is dispatched in the middle of the for loop.
CanDispatch_preempt == lifecycle = "Running" /\ inbox # <<>>

\* The loop dispatches while the listener is open and no task or handler is
\* executing: the for loop of aio_readline has no suspension point.
CanDispatch == lifecycle = "Running" /\ pc # "loop" /\ inbox # <<>>

\* The loop takes the oldest queued message and runs its handlers.
Dispatch ==
    /\ CanDispatch
    /\ LET msg == Head(inbox)
           r == dispatch(msg)
       IN /\ estate' = r.estate
          /\ connected' = connected + Count(r.log, "Target connected")
          /\ obs' = [Quiet("dispatch") EXCEPT !.msg = msg, !.log = r.log,
                                              !.invoked = r.invoked]
    /\ inbox' = Tail(inbox)
    /\ UNCHANGED <<lifecycle, heartbeat, nodes, arrived, pc, pending, readBusy,
                   reads, isRunning, instances>>

\* Mutant: a task never sees the cancellation.
CancelObserved_never == FALSE

\* stop() asks every task to cancel; a task suspended in the bridged read
\* sees the request when the read returns.
CancelObserved == lifecycle # "Running"

\* The position of the task after exception exc left its body.
TaskEnd(exc) ==
    IF AioReadlineCatches(exc) THEN "done"
    ELSE IF exc = "CancelledError" THEN "cancelled"
    ELSE "failed"

\* The blocking sys.stdin.readline returns rd.  A task awaiting it resumes
\* in the for loop; when no lines came, it loops to the next read at once.
\* When stop() was called meanwhile, the task is cancelled at the await and
\* rd is dropped.  The result of a read whose task is gone is discarded.
ReadReturn(rd) ==
    /\ readBusy
    /\ reads < MaxReads
    /\ reads' = reads + 1
    /\ IF pc = "reading" /\ ~CancelObserved
       THEN LET lines == SplitLines(rd)
            IN /\ pending' = lines
               /\ pc' = IF lines = <<>> THEN "reading" ELSE "loop"
               /\ readBusy' = (lines = <<>>)
               /\ UNCHANGED <<isRunning, instances>>
       ELSE IF pc = "reading"
       THEN /\ pc' = TaskEnd("CancelledError")
            /\ pending' = <<>>
            /\ readBusy' = FALSE
            /\ isRunning' = FALSE
            /\ instances' = instances - 1
       ELSE /\ readBusy' = FALSE
            /\ UNCHANGED <<pc, pending, isRunning, instances>>
    /\ obs' = Quiet("read")
    /\ UNCHANGED <<lifecycle, estate, heartbeat, nodes, inbox, arrived, connected>>

\* One iteration of the for loop: on_console(line.strip()).  After the last
\* line the while loop submits the next read and awaits it, also when
\* on_console has called stop().  An exception leaving on_console ends the
\* task unless aio_readline catches it.
ConsoleLine ==
    /\ pc = "loop"
    /\ pending # <<>>
    /\ LET line == Strip(Head(pending))
           r == on_console(line)
           lc == IF r.stop THEN stop(lifecycle) ELSE lifecycle
       IN /\ obs' = [Quiet("console") EXCEPT !.line = line, !.log = r.log,
                                             !.calls = r.calls, !.sent = r.sent,
                                             !.raised = r.raised]
          /\ lifecycle' = IF r.raised # "none" /\ ~AioReadlineCatches(r.raised)
                          THEN TaskBoundary(lc, r.raised) ELSE lc
          /\ inbox' = IF lc # "Running" THEN <<>> ELSE inbox
          /\ IF r.raised # "none"
             THEN /\ pc' = TaskEnd(r.raised)
                  /\ pending' = <<>>
                  /\ isRunning' = FALSE
                  /\ instances' = instances - 1
                  /\ readBusy' = FALSE
             ELSE /\ pending' = Tail(pending)
                  /\ pc' = IF Tail(pending) = <<>> THEN "reading" ELSE "loop"
                  /\ readBusy' = (Tail(pending) = <<>>)
                  /\ UNCHANGED <<isRunning, instances>>
    /\ UNCHANGED <<estate, heartbeat, nodes, arrived, reads, connected>>

\* Mutant: the loop ends without waiting for the outstanding read.
CanFinish_early == lifecycle = "Stopping" /\ pc # "loop"

\* Stopping -> Stopped: every task has ended and no read is outstanding.
CanFinish == lifecycle = "Stopping" /\ pc \notin {"loop", "reading"} /\ ~readBusy

Finish ==
    /\ CanFinish
    /\ lifecycle' = "Stopped"
    /\ obs' = Quiet("finish")
    /\ UNCHANGED <<estate, heartbeat, nodes, inbox, arrived, pc, pending,
                   readBusy, reads, isRunning, instances, connected>>

Next ==
    \/ Run
    \/ Relaunch
    \/ \E n \in Nodes : NodeAnnounce(n)
    \/ \E n \in Nodes : NodePrune(n)
    \/ \E t \in MsgTypes, s \in Sources : Arrive(t, s)
    \/ \E t \in MsgTypes, s \in Sources : DropArrival(t, s)
    \/ Dispatch
    \/ \E rd \in Reads : ReadReturn(rd)
    \/ ConsoleLine
    \/ Finish

Spec == Init /\ [][Next]_vars

\* The fairness the event loop gives its own steps: a queued message is
\* dispatched, the for loop proceeds and a loop with no work left ends.  The
\* console gives none: nobody has to type another line.
FairSpec ==
    Spec /\ WF_vars(Dispatch) /\ WF_vars(ConsoleLine) /\ WF_vars(Finish)

\* The fairness that bears on shutdown alone: a loop that has no task and no
\* outstanding read left ends.
FinishFairSpec == Spec /\ WF_vars(Finish)

----------------------------------------------------------------------------
(* Properties *)

\* The step is an iteration of the for loop that hands line l to on_console.
ConsoleStep(l) ==
    /\ pc = "loop"
    /\ pending # <<>>
    /\ Strip(Head(pending)) = l
    /\ obs'.op = "console"

IsStartRequest(m) ==
    m.abbrev = "PlanControl" /\ m.type = "REQUEST" /\ m.op = "START"

\* C1: while estate is absent, processing the line "start" logs the "not
\* connected" notice, makes no send call and leaves estate, the heartbeat
\* list and the lifecycle state as they were.
C1_StartNotConnected ==
    [][(ConsoleStep(<<"start">>) /\ estate = NoMsg)
        => /\ obs'.log = <<"Vehicle not connected">>
           /\ obs'.calls = <<>>
           /\ obs'.sent = <<>>
           /\ obs'.raised = "none"
           /\ estate' = estate
           /\ heartbeat' = heartbeat
           /\ lifecycle' = lifecycle]_vars

C1_Witness ==
    /\ obs.op = "console"
    /\ obs.line = <<"start">>
    /\ estate = NoMsg
    /\ obs.log = <<"Vehicle not connected">>

\* C2 as stated: once estate is set, every processed "start" line produces
\* exactly one outbound start request, addressed to the peer that estate
\* came from.
C2_StartSendsOne ==
    [][(ConsoleStep(<<"start">>) /\ estate # NoMsg)
        => /\ Len(obs'.sent) = 1
           /\ IsStartRequest(obs'.sent[1].msg)
           /\ obs'.sent[1].node = estate.src]_vars

\* C2 amended: once estate is set, every processed "start" line makes
\* exactly one send call, of a PlanControl start request whose destination
\* is estate (not the target name); the transport is handed that one
\* message, for the node estate came from, when that node is still in the
\* node directory, and nothing otherwise.
C2_StartCallsSendOnce ==
    [][(ConsoleStep(<<"start">>) /\ estate # NoMsg)
        => /\ Len(obs'.calls) = 1
           /\ IsStartRequest(obs'.calls[1].msg)
           /\ obs'.calls[1].dest = ByMsg(estate)
           /\ obs'.sent = IF estate.src \in nodes
                          THEN <<[node |-> estate.src, msg |-> obs'.calls[1].msg]>>
                          ELSE <<>>]_vars

C2_Witness ==
    /\ obs.op = "console"
    /\ obs.line = <<"start">>
    /\ estate # NoMsg
    /\ Len(obs.sent) = 1
    /\ obs.sent[1].node = estate.src
    /\ IsStartRequest(obs.sent[1].msg)

\* C3 as stated: "exit" while Running moves the actor to Stopping, from
\* Stopping it eventually reaches Stopped, and from Stopping on no message
\* is dispatched and estate no longer changes.
C3_ExitStops ==
    /\ [][(ConsoleStep(<<"exit">>) /\ lifecycle = "Running")
           => lifecycle' = "Stopping"]_vars
    /\ [][lifecycle # "Running" => (obs'.op # "dispatch" /\ estate' = estate)]_vars
    /\ (lifecycle = "Stopping") ~> (lifecycle = "Stopped")

\* C4 as stated: a send that fails in a command handler is reported and not
\* propagated: the actor is still Running and the console task still active.
C4_SendFailureContained ==
    [][(obs'.op = "console" /\ lifecycle = "Running"
        /\ obs'.calls # <<>> /\ obs'.sent = <<>>)
        => /\ obs'.raised = "none"
           /\ lifecycle' = "Running"
           /\ pc' \in {"loop", "reading"}
           /\ isRunning']_vars

\* C5: processing the line "stop" makes exactly one send call, of an Abort
\* to the configured target name, whatever estate is; when the name cannot
\* be resolved the "Failed to send abort" error is logged, nothing is handed
\* to the transport, no exception leaves the handler, and lifecycle and
\* estate are unchanged.
C5_StopSendsAbort ==
    [][ConsoleStep(<<"stop">>)
        => /\ obs'.calls = <<[dest |-> ByName(target_name), msg |-> Abort]>>
           /\ Len(obs'.sent) <= 1
           /\ (~Resolvable(ByName(target_name))
                => /\ obs'.log = <<"Aborting...", "Failed to send abort">>
                   /\ obs'.sent = <<>>
                   /\ obs'.raised = "none"
                   /\ lifecycle' = lifecycle
                   /\ estate' = estate
                   /\ (lifecycle = "Running" => isRunning'))]_vars

C5_Witness ==
    /\ obs.op = "console"
    /\ obs.line = <<"stop">>
    /\ obs.log = <<"Aborting...", "Failed to send abort">>
    /\ obs.sent = <<>>
    /\ lifecycle = "Running"

\* C6: at most one instance of aio_readline is active, and it is active
\* exactly when the run-once guard is set.
C6_OneInstance == instances \in {0, 1} /\ (isRunning <=> instances = 1)

C6_Witness ==
    /\ obs.op = "relaunch"
    /\ obs.log = <<"debug: already running">>
    /\ instances = 1

\* C7: from_target never raises; it is false for every message whose origin
\* the node directory does not hold, and true only when the origin resolves
\* to a node named as the configured target.
C7_FromTarget ==
    \A t \in MsgTypes, s \in Sources, q \in 1..MaxMsgs :
        LET f == from_target(InMsg(t, s, q))
        IN /\ f.raised = "none"
           /\ (s \notin nodes => f.value = FALSE)
           /\ (f.value <=> (s \in nodes /\ NodeName(s) = target_name))

C7_Witness ==
    /\ obs.op = "dispatch"
    /\ obs.invoked = <<"recv_estate">>
    /\ obs.msg.src \notin nodes
    /\ obs.log = <<>>
    /\ estate = NoMsg
    /\ 1 \in nodes

\* C8: a dispatch invokes every handler registered for the message's type
\* exactly once, in registration order, and no other handler; recv_estate
\* runs for EstimatedState messages only.
C8_DispatchByType ==
    obs.op = "dispatch"
    => /\ \A i \in 1..Len(Subscriptions) :
            Subscriptions[i].abbrev = obs.msg.abbrev
            => Count(obs.invoked, Subscriptions[i].fn) = 1
       /\ \A k \in 1..Len(obs.invoked) :
            \E i \in 1..Len(Subscriptions) :
                /\ Subscriptions[i].fn = obs.invoked[k]
                /\ Subscriptions[i].abbrev = obs.msg.abbrev
       /\ \A k, l \in 1..Len(obs.invoked) :
            k < l => \E i, j \in 1..Len(Subscriptions) :
                        /\ i < j
                        /\ Subscriptions[i].fn = obs.invoked[k]
                        /\ Subscriptions[j].fn = obs.invoked[l]
       /\ (Count(obs.invoked, "recv_estate") = 1
            <=> obs.msg.abbrev = "EstimatedState")
       /\ Count(obs.invoked, "recv_estate") <= 1

C8_Witness ==
    /\ obs.op = "dispatch"
    /\ obs.msg.abbrev = "Heartbeat"
    /\ obs.msg.src = 1
    /\ 1 \in nodes
    /\ obs.invoked = <<>>
    /\ estate = NoMsg

\* C9: a line other than "exit", "stop" and "start" logs "Unknown command"
\* and nothing else happens: no send call, and estate, the heartbeat list
\* and the lifecycle state are unchanged.
C9_UnknownCommand ==
    [][(/\ pc = "loop"
        /\ pending # <<>>
        /\ obs'.op = "console"
        /\ Strip(Head(pending)) \notin {<<"exit">>, <<"stop">>, <<"start">>})
        => /\ obs'.log = <<"Unknown command">>
           /\ obs'.calls = <<>>
           /\ obs'.sent = <<>>
           /\ obs'.raised = "none"
           /\ estate' = estate
           /\ heartbeat' = heartbeat
           /\ nodes' = nodes
           /\ lifecycle' = lifecycle]_vars

C9_Witness ==
    /\ obs.op = "console"
    /\ obs.line = <<>>
    /\ obs.log = <<"Unknown command">>
    /\ estate # NoMsg

\* C10: an exception that leaves the body of the console task ends that
\* task and nothing else: the lifecycle state and estate are as before (a
\* Running actor is still Running), and while the actor is Running with the
\* task gone a queued message can still be dispatched.
C10_TaskFailureIsolated ==
    /\ [][(obs'.op = "console" /\ obs'.raised # "none")
           => /\ lifecycle' = lifecycle
              /\ pc' = "failed"
              /\ instances' = instances - 1
              /\ estate' = estate
              /\ inbox' = inbox]_vars
    /\ []((pc = "failed" /\ lifecycle = "Running" /\ inbox # <<>>)
           => ENABLED Dispatch)

C10_Witness ==
    /\ pc = "failed"
    /\ lifecycle = "Running"
    /\ obs.op = "dispatch"
    /\ obs.invoked = <<"recv_estate">>
    /\ estate = obs.msg

\* C11: while the actor is Stopping with the console task suspended in the
\* bridged read, the task stays suspended and the actor stays Stopping until
\* the read returns; the returning read ends the task as cancelled with its
\* lines dropped, and from there the actor reaches Stopped.
C11_StopStallsOnRead ==
    /\ [][(lifecycle = "Stopping" /\ pc = "reading")
           => /\ readBusy
              /\ lifecycle' = "Stopping"
              /\ IF obs'.op = "read"
                 THEN pc' = "cancelled" /\ ~readBusy' /\ pending' = <<>>
                 ELSE pc' = "reading" /\ readBusy']_vars
    /\ (lifecycle = "Stopping" /\ pc = "cancelled") ~> (lifecycle = "Stopped")

C11_Witness ==
    /\ lifecycle = "Stopped"
    /\ pc = "cancelled"
    /\ obs.op = "finish"
    /\ reads >= 2

\* The message is an EstimatedState whose origin the node directory resolves
\* to a node named as the configured target.
FromTargetState(m) ==
    /\ m.abbrev = "EstimatedState"
    /\ m.src \in nodes
    /\ NodeName(m.src) = target_name

\* C12: estate is absent at first; a step changes it only by dispatching the
\* oldest queued message when that is an EstimatedState from the target, and
\* estate is then that message; every other dispatch and every console line
\* leaves it as it was.
C12_EstateIsLastTargetState ==
    /\ estate = NoMsg
    /\ [][IF obs'.op = "dispatch"
          THEN /\ obs'.msg = Head(inbox)
               /\ estate' = IF FromTargetState(obs'.msg) THEN obs'.msg ELSE estate
          ELSE estate' = estate]_vars

C12_Witness ==
    /\ obs.op = "dispatch"
    /\ obs.msg.abbrev = "EstimatedState"
    /\ obs.msg.src = 2
    /\ 2 \in nodes
    /\ estate # NoMsg
    /\ estate.seq < obs.msg.seq

\* C13: the lifecycle state changes only one step forward along Created,
\* Running, Stopping, Stopped, and Running is left only by the step that
\* processes the line "exit".
C13_LifecycleForward ==
    [][lifecycle' # lifecycle
        => /\ <<lifecycle, lifecycle'>> \in
                {<<"Created", "Running">>, <<"Running", "Stopping">>,
                 <<"Stopping", "Stopped">>}
           /\ (lifecycle = "Running"
                => /\ obs'.op = "console"
                   /\ obs'.line = <<"exit">>
                   /\ obs'.raised = "none")]_vars

C13_Witness ==
    /\ lifecycle = "Stopped"
    /\ pc = "failed"
    /\ estate # NoMsg

ValidPlan(spec) ==
    /\ Len(spec.maneuvers) >= 1
    /\ \E i \in 1..Len(spec.maneuvers) :
          spec.maneuvers[i].maneuver_id = spec.start_man_id

\* C14: every plan in a send call of "start", and so every plan handed to
\* the transport, has at least one maneuver and a start maneuver id that is
\* the id of one of its maneuvers.
C14_PlansAreValid ==
    /\ \A i \in 1..Len(obs.calls) :
          obs.calls[i].msg.abbrev = "PlanControl" => ValidPlan(obs.calls[i].msg.arg)
    /\ \A i \in 1..Len(obs.sent) :
          obs.sent[i].msg.abbrev = "PlanControl" => ValidPlan(obs.sent[i].msg.arg)

C14_Witness ==
    /\ obs.op = "console"
    /\ Len(obs.sent) = 1
    /\ obs.sent[1].msg.abbrev = "PlanControl"
    /\ Len(obs.sent[1].msg.arg.maneuvers) = 1
    /\ obs.sent[1].msg.arg.start_man_id = "TestManeuver"

\* C15: no message is dispatched while the for loop of aio_readline runs (a
\* message that arrives meanwhile waits in the queue): from the resumption
\* of the task to its next await no handler is invoked and estate and the
\* node directory keep their values, and a "start" line sends to the estate
\* its check has seen.
C15_NoInterleaving ==
    [][pc = "loop"
        => /\ obs'.op # "dispatch"
           /\ obs'.invoked = <<>>
           /\ estate' = estate
           /\ nodes' = nodes
           /\ (obs'.op = "console" /\ obs'.line = <<"start">> /\ estate # NoMsg
                => obs'.calls[1].dest = ByMsg(estate'))]_vars

C15_Witness ==
    /\ obs.op = "console"
    /\ obs.line = <<"start">>
    /\ obs.calls # <<>>
    /\ pc = "loop"
    /\ inbox # <<>>
    /\ FromTargetState(Head(inbox))
    /\ lifecycle = "Running"

\* C16: the heartbeat list holds the configured target name exactly once, in
\* every state.
C16_OneHeartbeatEntry == Count(heartbeat, target_name) = 1

C16_Witness ==
    /\ lifecycle = "Stopped"
    /\ estate # NoMsg
    /\ arrived = MaxMsgs
    /\ Count(heartbeat, target_name) = 1

\* C17 as stated: the plan_id of every PlanControl in a send call is the
\* plan_id of the PlanSpecification in its arg.
C17_PlanIdNamesPlan ==
    \A i \in 1..Len(obs.calls) :
        obs.calls[i].msg.abbrev = "PlanControl"
        => obs.calls[i].msg.plan_id = obs.calls[i].msg.arg.plan_id

\* C18 as stated: once "exit" has been processed no console line has an
\* effect any more: no step makes a send call, hands a message to the
\* transport or changes estate, the heartbeat list or the node directory.
C18_NothingAfterExit ==
    [][lifecycle # "Running"
        => /\ obs'.calls = <<>>
           /\ obs'.sent = <<>>
           /\ estate' = estate
           /\ heartbeat' = heartbeat
           /\ nodes' = nodes]_vars

\* C18 amended: input read after stop() has no effect: a read that returns
\* once the actor has left Running hands no line to on_console and changes
\* neither estate, the heartbeat list, the node directory nor the lifecycle
\* state; the lines after "exit" in the read that held "exit" are still
\* handed to on_console, and no read returns before they are done.
C18_NoInputAfterStop ==
    [][lifecycle # "Running"
        => /\ (obs'.op = "read"
                => /\ pc' # "loop"
                   /\ pending' = <<>>
                   /\ obs'.calls = <<>>
                   /\ obs'.sent = <<>>
                   /\ estate' = estate
                   /\ heartbeat' = heartbeat
                   /\ nodes' = nodes
                   /\ lifecycle' = lifecycle)
           /\ (obs'.op = "console" => (pc = "loop" /\ ~readBusy /\ reads' = reads))]_vars

C18_Witness ==
    /\ obs.op = "read"
    /\ lifecycle = "Stopping"
    /\ pc = "cancelled"
    /\ reads >= 2
    /\ estate # NoMsg

\* C19: estate, once set, is never absent again; 'Target connected' is
\* logged exactly by the step that sets estate for the first time, so at
\* most once.
C19_ConnectedOnce ==
    [][/\ (estate # NoMsg => estate' # NoMsg)
       /\ connected' <= 1
       /\ (connected' = connected + 1 <=> (estate = NoMsg /\ estate' # NoMsg))
       /\ (Count(obs'.log, "Target connected") = connected' - connected)]_vars

C19_Witness ==
    /\ connected = 1
    /\ obs.op = "dispatch"
    /\ obs.msg = estate
    /\ obs.log = <<>>
    /\ estate.seq = MaxMsgs

============================================================================
